---- MODULE Spec2Model ----
(***************************************************************************)
(* The ISS location producer (producer/iss-producer.js, the variant with   *)
(* the isRequestInFlight guard): main connects the Kafka producer, runs    *)
(* fetchAndPublish once, arms a repeating timer, and every timer tick runs *)
(* fetchAndPublish again.  fetchAndPublish suspends at two awaits          *)
(* (axios.get and producer.send); each action below is one run-to-         *)
(* completion step of the Node.js event loop.                              *)
(***************************************************************************)
EXTENDS Naturals, Integers, Sequences, FiniteSets, TLC

VARIABLES
    proc,               \* "running", "exit0" (process.exit(0)) or "exit1"
    mainPc,             \* where main() is: "connecting", "startupFetch", "armed", "failed"
    isRequestInFlight,  \* the module-level busy flag
    calls,              \* the fetchAndPublish invocations made so far, in call order,
                        \* each with the console lines it wrote
    topic,              \* the values of the messages stored in the Kafka topic
    mainLog,            \* the distinct console lines main and the signal handlers wrote
    disconnecting,      \* a signal handler is suspended at await producer.disconnect()
    now                 \* the system clock read by new Date(), in timer periods
                        \* elapsed since the timer was armed

\* the dashboard page
VARIABLES
    container,          \* the children of #alertsContainer, first child first
    received,           \* the locations addLocation was called with, in call order
    evicted,            \* the entries addLocation removed, in the order of removal
    ws,                 \* the page's WebSocket: "none", "connecting", "open" or "closed"
    placeholderRemoved  \* addLocation has removed the empty-state placeholder

\* the broadcast relay
VARIABLES
    connections,        \* the viewer connections that are open now
    inbox,              \* per connection, the frames it has received
    last,               \* the latest onEvent: its number, its event, the connections
                        \* open at that time, those whose send failed, and how many
                        \* frames each connection had received before it
    raised,             \* an error has left onEvent
    relayLog,           \* the failures onEvent has logged
    seen,               \* the calls of onEvent so far, in call order: the event, the
                        \* connections open at that time and those whose send failed
    got                 \* per connection, for each frame of its inbox the number of
                        \* the onEvent call that sent it

producerVars == <<proc, mainPc, isRequestInFlight, calls, topic, mainLog, disconnecting, now>>
viewerVars == <<container, received, evicted, ws, placeholderRemoved>>
relayVars == <<connections, inbox, last, raised, relayLog, seen, got>>
vars == <<producerVars, viewerVars, relayVars>>

----------------------------------------------------------------------------
(* Bounds of the model *)

\* fetchAndPublish invocations (the startup one included)
MaxCalls == 3

\* calls of addLocation
MaxEvents == 12

\* events the relay is given
MaxRelayed == 2

----------------------------------------------------------------------------
(* JavaScript values *)

Undefined == [t |-> "undefined"]
Null == [t |-> "null"]
NaN == [t |-> "nan"]
Infinity(s) == [t |-> "inf", s |-> s]
\* the number s * m * 10^-e, with m not divisible by 10 unless e = 0
Num(s, m, e) == [t |-> "num", s |-> s, m |-> m, e |-> e]
IntNum(n) == Num(1, n, 0)
Str(s) == [t |-> "str", v |-> s]

Digits == <<"0", "1", "2", "3", "4", "5", "6", "7", "8", "9">>
IsDigit(c) == \E d \in 1..10 : Digits[d] = c
DigitVal(c) == (CHOOSE d \in 1..10 : Digits[d] = c) - 1
IsWhite(c) == c \in {" ", "\t", "\n"}

RECURSIVE SkipWhite(_)
SkipWhite(s) ==
    IF s # <<>> /\ IsWhite(Head(s)) THEN SkipWhite(Tail(s)) ELSE s

\* the longest prefix of s made of digits
RECURSIVE DigitRun(_)
DigitRun(s) ==
    IF s # <<>> /\ IsDigit(Head(s)) THEN <<Head(s)>> \o DigitRun(Tail(s)) ELSE <<>>

RECURSIVE DigitsValue(_, _)
DigitsValue(s, acc) ==
    IF s = <<>> THEN acc ELSE DigitsValue(Tail(s), 10 * acc + DigitVal(Head(s)))

\* drop the trailing zeros of a fraction
RECURSIVE StripZeros(_)
StripZeros(s) ==
    IF s # <<>> /\ s[Len(s)] = "0" THEN StripZeros(SubSeq(s, 1, Len(s) - 1)) ELSE s

RECURSIVE Pow10(_)
Pow10(k) == IF k = 0 THEN 1 ELSE 10 * Pow10(k - 1)

IsPrefix(p, s) == Len(p) <= Len(s) /\ SubSeq(s, 1, Len(p)) = p

InfinityText == <<"I", "n", "f", "i", "n", "i", "t", "y">>

\* parseInt in the place of parseFloat: the fraction is dropped
parseIntOnly(text) ==
    LET s0 == SkipWhite(text)
        neg == s0 # <<>> /\ Head(s0) = "-"
        signed == s0 # <<>> /\ Head(s0) \in {"-", "+"}
        s1 == IF signed THEN Tail(s0) ELSE s0
        ip == DigitRun(s1)
    IN  IF ip = <<>> THEN NaN
        ELSE Num(IF neg THEN 0 - 1 ELSE 1, DigitsValue(ip, 0), 0)

\* parseFloat of a text given as a sequence of characters: leading white space
\* is skipped, an optional sign is read, then "Infinity" or the longest decimal
\* literal; anything after it is ignored, and no literal at all gives NaN.
\* (The texts of the model carry no exponent part.)
parseFloat(text) ==
    LET s0 == SkipWhite(text)
        neg == s0 # <<>> /\ Head(s0) = "-"
        signed == s0 # <<>> /\ Head(s0) \in {"-", "+"}
        s1 == IF signed THEN Tail(s0) ELSE s0
        sgn == IF neg THEN 0 - 1 ELSE 1
        ip == DigitRun(s1)
        rest == SubSeq(s1, Len(ip) + 1, Len(s1))
        dot == rest # <<>> /\ Head(rest) = "."
        fp == IF dot THEN DigitRun(Tail(rest)) ELSE <<>>
        frac == StripZeros(fp)
    IN  IF IsPrefix(InfinityText, s1) THEN Infinity(sgn)
        ELSE IF ip = <<>> /\ fp = <<>> THEN NaN
        ELSE Num(sgn, DigitsValue(ip \o frac, 0), Len(frac))

----------------------------------------------------------------------------
(* Upstream responses: what axios.get can settle with *)

Position(lat, lon) == [t |-> "obj", latitude |-> Str(lat), longitude |-> Str(lon)]

Body(msg, ts, pos) ==
    [present |-> TRUE, message |-> msg, timestamp |-> ts, iss_position |-> pos]

\* an empty response body: response.data is falsy
NoBody == [present |-> FALSE, message |-> Undefined, timestamp |-> Undefined,
           iss_position |-> Undefined]

ParisLat == <<"4", "8", ".", "8", "5", "6", "6">>
ParisLon == <<"2", ".", "3", "5", "2", "2">>
SouthLat == <<"-", "1", "2", ".", "5", "0">>
PaddedLon == <<" ", "7">>
JunkText == <<"a", "b", "c">>
MinusInfinityText == <<"-">> \o InfinityText

SuccessBody == Body(Str("success"), IntNum(1705332000), Position(ParisLat, ParisLon))
NoTimestampBody == Body(Str("success"), Undefined, Position(SouthLat, PaddedLon))
JunkBody == Body(Str("success"), IntNum(1705332000), Position(JunkText, MinusInfinityText))
NoPositionBody == Body(Str("success"), IntNum(1705332000), Undefined)
FailureBody == Body(Str("failure"), Undefined, Undefined)
FailureFullBody == Body(Str("failure"), IntNum(1705332000), Position(ParisLat, ParisLon))

Bodies == {SuccessBody, NoTimestampBody, JunkBody, NoPositionBody, FailureBody,
           FailureFullBody, NoBody}

\* what an invocation remembers of the settled request
Resolved(data) == [t |-> "resolved", data |-> data]
Rejected(err) == [t |-> "rejected", err |-> err]

\* the ways axios.get rejects: the 10000 ms timeout expires, the connection
\* fails, or the server answers with a non-2xx status
Rejections == {"timeout", "network", "http"}

\* error.response is set only when the server answered
HasResponse(err) == err = "http"
\* error.request is set whenever the request was made
HasRequest(err) == err \in {"timeout", "network", "http"}

----------------------------------------------------------------------------
(* The pure parts of fetchAndPublish *)

Pad2(n) == <<Digits[(n \div 10) + 1], Digits[(n % 10) + 1]>>

\* new Date().toISOString() at clock reading n (timer periods after 22:00)
toISOString(n) ==
    <<"2026-01-17T22:">> \o Pad2(n) \o <<":00.000Z">>

\* the message check left out
IsValidResponseAnyBody(data) == data.present

\* the check of the response, as the code negates it: a body that is present
\* and carries message 'success'
IsValidResponse(data) == data.present /\ data.message = Str("success")

\* reading issData.iss_position.latitude throws a TypeError when iss_position
\* is undefined
NormalizeThrows(issData) == issData.iss_position = Undefined

normalizeIssLocation(issData, clock) ==
    [timestamp |-> issData.timestamp,
     latitude |-> parseFloat(issData.iss_position.latitude.v),
     longitude |-> parseFloat(issData.iss_position.longitude.v),
     eventTime |-> Str(toISOString(clock))]

\* JSON.stringify of one value: NaN and the infinities become null, -0 becomes 0
JsonValue(v) ==
    IF v.t \in {"nan", "inf"} THEN Null
    ELSE IF v.t = "num" /\ v.m = 0 THEN IntNum(0)
    ELSE v

\* JSON.stringify of an object: the keys whose value is undefined are left out
JSONstringify(obj) ==
    [k \in {key \in DOMAIN obj : obj[key] # Undefined} |-> JsonValue(obj[k])]

\* the branch of the catch block an error takes
CatchLine(hasResponse, hasRequest) ==
    IF hasResponse THEN "ISS API error (will retry on next interval)"
    ELSE IF hasRequest THEN "Network error: Could not reach ISS API (will retry on next interval)"
    ELSE "Error (will retry on next interval)"

\* the outcomes that are an exception thrown inside the try block
Thrown(outcome) == outcome \in Rejections \cup {"threw", "sendFailed"}

\* a catch that handles the errors of the request and rethrows any other
CatchesRequestErrorsOnly(outcome) == outcome \in Rejections

\* catch (error): every exception thrown inside the try block is caught
Catches(outcome) == TRUE

\* the promise of fetchAndPublish once the invocation has left the function
Settled(outcome) ==
    IF Thrown(outcome) /\ ~Catches(outcome) THEN "rejected" ELSE "fulfilled"

\* the guard left out
SkipsNever(flag) == FALSE

\* the guard at the top of fetchAndPublish: skip when the flag is set
Skips(flag) == flag

\* the flag reset as the last statement of try instead of in finally
FlagAfterTryOnly(outcome) == outcome # "published"

\* the flag after an invocation that passed the guard has left the
\* try/catch/finally, whatever its outcome
FlagAfter(outcome) == FALSE

Line(stream, text) == [stream |-> stream, text |-> text]

Active(c) == c.pc \in {"awaitGet", "awaitSend"}
ActiveCalls == {i \in DOMAIN calls : Active(calls[i])}

\* one invocation of fetchAndPublish: where it is (pc), its local message,
\* the console lines it wrote, and its history: who called it, the flag and
\* the other invocations at its entry, what its request settled with, how it
\* ended, how many requests, sends and stored messages it caused, the offset
\* in the topic its message was stored at, and the state of its promise
NewCall(src, pc, outcome, requests, line) ==
    [src |-> src, busyAtEntry |-> isRequestInFlight, overlapped |-> ActiveCalls # {},
     pc |-> pc, outcome |-> outcome, response |-> Undefined,
     requests |-> requests, sends |-> 0, published |-> 0, offset |-> 0,
     message |-> Undefined, lines |-> <<line>>,
     promise |-> IF pc = "returned" THEN "fulfilled" ELSE "pending"]

----------------------------------------------------------------------------
(* Actions *)

\* the producer after its module has loaded and main has called connect
ProducerInit ==
    /\ proc = "running"
    /\ mainPc = "connecting"
    /\ isRequestInFlight = FALSE
    /\ calls = <<>>
    /\ topic = <<>>
    /\ mainLog = {}
    /\ disconnecting = FALSE
    /\ now = 0

\* no page is loaded
NoViewer ==
    /\ container = <<>> /\ received = <<>> /\ evicted = <<>> /\ ws = "none"
    /\ placeholderRemoved = FALSE

\* the viewer connections, by name
Conns == {"a", "b", "c"}

\* no relay is running
NoRelay ==
    /\ connections = {}
    /\ inbox = [k \in Conns |-> <<>>]
    /\ last = [n |-> 0, event |-> Undefined, open |-> {}, failing |-> {},
               before |-> [k \in Conns |-> 0]]
    /\ raised = FALSE
    /\ relayLog = <<>>
    /\ seen = <<>>
    /\ got = [k \in Conns |-> <<>>]

Init == ProducerInit /\ NoViewer /\ NoRelay

\* a step of the producer leaves the page and the relay alone
ProducerStep == UNCHANGED <<viewerVars, relayVars>>

\* an entry whose skip path runs through the finally block
EnterSkipClears(src) ==
    IF Skips(isRequestInFlight)
    THEN /\ calls' = Append(calls, NewCall(src, "returned", "skipped", 0,
                         Line("log", "Previous request still in progress, skipping...")))
         /\ isRequestInFlight' = FALSE
    ELSE /\ isRequestInFlight' = TRUE
         /\ calls' = Append(calls, NewCall(src, "awaitGet", "none", 1,
                         Line("log", "Fetching ISS location...")))

\* fetchAndPublish from its entry to its first suspension: a skipped
\* invocation logs and returns, any other sets the flag and issues axios.get
Enter(src) ==
    IF Skips(isRequestInFlight)
    THEN /\ calls' = Append(calls, NewCall(src, "returned", "skipped", 0,
                         Line("log", "Previous request still in progress, skipping...")))
         /\ UNCHANGED isRequestInFlight
    ELSE /\ isRequestInFlight' = TRUE
         /\ calls' = Append(calls, NewCall(src, "awaitGet", "none", 1,
                         Line("log", "Fetching ISS location...")))

\* a return after which main arms the timer only when the startup
\* invocation has published
ReturnArmsOnSuccess(i, c, outcome, line) ==
    /\ calls' = [calls EXCEPT ![i] =
                    [c EXCEPT !.pc = "returned", !.outcome = outcome,
                              !.message = Undefined,
                              !.promise = Settled(outcome),
                              !.lines = Append(c.lines, line)]]
    /\ isRequestInFlight' = FlagAfter(outcome)
    /\ mainPc' = IF c.src # "startup" THEN mainPc
                 ELSE IF outcome = "published" THEN "armed" ELSE "failed"

\* an invocation leaves fetchAndPublish through finally, its locals are gone;
\* main, when it was awaiting this invocation, goes on to arm the timer
Return(i, c, outcome, line) ==
    /\ calls' = [calls EXCEPT ![i] =
                    [c EXCEPT !.pc = "returned", !.outcome = outcome,
                              !.message = Undefined,
                              !.promise = Settled(outcome),
                              !.lines = IF Settled(outcome) = "rejected" THEN c.lines
                                        ELSE Append(c.lines, line)]]
    /\ isRequestInFlight' = FlagAfter(outcome)
    /\ mainPc' = IF c.src = "startup" THEN "armed" ELSE mainPc

\* main making the startup invocation without awaiting it
ConnectResolvesNoAwait ==
    /\ proc = "running"
    /\ mainPc = "connecting"
    /\ mainLog' = mainLog \cup {Line("log", "Kafka producer connected")}
    /\ Enter("startup")
    /\ mainPc' = "armed"
    /\ UNCHANGED <<proc, topic, disconnecting, now>>

\* producer.connect() resolves: main logs and makes the startup invocation
ConnectResolves ==
    /\ proc = "running"
    /\ mainPc = "connecting"
    /\ mainLog' = mainLog \cup {Line("log", "Kafka producer connected")}
    /\ Enter("startup")
    /\ mainPc' = IF Skips(isRequestInFlight) THEN "armed" ELSE "startupFetch"
    /\ UNCHANGED <<proc, topic, disconnecting, now>>

\* a rejected connect that main logs and then goes on from
ConnectRejectsGoesOn ==
    /\ proc = "running"
    /\ mainPc = "connecting"
    /\ mainLog' = mainLog \cup {Line("error", "Failed to start producer")}
    /\ Enter("startup")
    /\ mainPc' = "startupFetch"
    /\ UNCHANGED <<proc, topic, disconnecting, now>>

\* producer.connect() rejects: main logs and exits with status 1
ConnectRejects ==
    /\ proc = "running"
    /\ mainPc = "connecting"
    /\ mainLog' = mainLog \cup {Line("error", "Failed to start producer")}
    /\ mainPc' = "failed"
    /\ proc' = "exit1"
    /\ UNCHANGED <<isRequestInFlight, calls, topic, disconnecting, now>>

\* the period of the repeating timer, in milliseconds
IntervalMs == 30000

\* the repeating timer fires, one period after it last fired or was armed
TimerTick ==
    /\ proc = "running"
    /\ mainPc = "armed"
    /\ Len(calls) < MaxCalls
    /\ now' = now + 1
    /\ Enter("timer")
    /\ UNCHANGED <<proc, mainPc, topic, mainLog, disconnecting>>

\* axios.get resolves with a 2xx response carrying `data`
GetResolves(i, data) ==
    LET c == [calls[i] EXCEPT !.response = Resolved(data)] IN
    /\ proc = "running"
    /\ calls[i].pc = "awaitGet"
    /\ IF ~IsValidResponse(data)
       THEN Return(i, c, "invalid", Line("log", "Invalid ISS API response"))
       ELSE IF NormalizeThrows(data)
       THEN Return(i, c, "threw", Line("error", CatchLine(FALSE, FALSE)))
       ELSE /\ calls' = [calls EXCEPT ![i] =
                            [c EXCEPT !.pc = "awaitSend",
                                      !.sends = c.sends + 1,
                                      !.message =
                                          JSONstringify(normalizeIssLocation(data, now))]]
            /\ UNCHANGED <<isRequestInFlight, mainPc>>
    /\ UNCHANGED <<proc, topic, mainLog, disconnecting, now>>

\* a rejected request that is issued again within the invocation
GetRejectsRetries(i, err) ==
    /\ proc = "running"
    /\ calls[i].pc = "awaitGet"
    /\ calls' = [calls EXCEPT ![i] = [calls[i] EXCEPT !.requests = calls[i].requests + 1]]
    /\ UNCHANGED <<proc, mainPc, isRequestInFlight, topic, mainLog, disconnecting, now>>

\* axios.get rejects
GetRejects(i, err) ==
    /\ proc = "running"
    /\ calls[i].pc = "awaitGet"
    /\ Return(i, [calls[i] EXCEPT !.response = Rejected(err)], err,
              Line("error", CatchLine(HasResponse(err), HasRequest(err))))
    /\ UNCHANGED <<proc, topic, mainLog, disconnecting, now>>

\* producer.send resolves: the message is in the topic
SendResolves(i) ==
    /\ proc = "running"
    /\ calls[i].pc = "awaitSend"
    /\ topic' = Append(topic, calls[i].message)
    /\ Return(i, [calls[i] EXCEPT !.published = calls[i].published + 1,
                                  !.offset = Len(topic) + 1], "published",
              Line("log", "Sent ISS location to Kafka"))
    /\ UNCHANGED <<proc, mainLog, disconnecting, now>>

\* a rejected producer.send handled like a failed producer.connect
SendRejectsFatal(i) ==
    /\ proc = "running"
    /\ calls[i].pc = "awaitSend"
    /\ Return(i, calls[i], "sendFailed", Line("error", CatchLine(FALSE, FALSE)))
    /\ proc' = "exit1"
    /\ UNCHANGED <<topic, mainLog, disconnecting, now>>

\* producer.send rejects
SendRejects(i) ==
    /\ proc = "running"
    /\ calls[i].pc = "awaitSend"
    /\ Return(i, calls[i], "sendFailed", Line("error", CatchLine(FALSE, FALSE)))
    /\ UNCHANGED <<proc, topic, mainLog, disconnecting, now>>

\* SIGINT or SIGTERM, any number of times: the handler logs and suspends at
\* producer.disconnect()
Signal ==
    /\ proc = "running"
    /\ disconnecting' = TRUE
    /\ mainLog' = mainLog \cup {Line("log", "Shutting down...")}
    /\ UNCHANGED <<proc, mainPc, isRequestInFlight, calls, topic, now>>

\* producer.disconnect() resolves: the handler that awaited it calls
\* process.exit(0)
DisconnectResolves ==
    /\ proc = "running"
    /\ disconnecting
    /\ proc' = "exit0"
    /\ UNCHANGED <<mainPc, isRequestInFlight, calls, topic, mainLog, disconnecting, now>>

Next ==
    \/ ConnectResolves /\ ProducerStep
    \/ ConnectRejects /\ ProducerStep
    \/ TimerTick /\ ProducerStep
    \/ (\E i \in DOMAIN calls : \E data \in Bodies : GetResolves(i, data)) /\ ProducerStep
    \/ (\E i \in DOMAIN calls : \E err \in Rejections : GetRejects(i, err)) /\ ProducerStep
    \/ (\E i \in DOMAIN calls : SendResolves(i)) /\ ProducerStep
    \/ (\E i \in DOMAIN calls : SendRejects(i)) /\ ProducerStep
    \/ Signal /\ ProducerStep
    \/ DisconnectResolves /\ ProducerStep

Spec == Init /\ [][Next]_vars

\* every request and every publish that is awaited eventually settles
RequestSettles ==
    /\ \E i \in DOMAIN calls :
        \/ \E data \in Bodies : GetResolves(i, data)
        \/ \E err \in Rejections : GetRejects(i, err)
    /\ ProducerStep
PublishSettles ==
    /\ \E i \in DOMAIN calls : SendResolves(i) \/ SendRejects(i)
    /\ ProducerStep

FairSpec == Spec /\ WF_vars(RequestSettles) /\ WF_vars(PublishSettles)

----------------------------------------------------------------------------
(* The producer variant without the busy flag: the same main and signal    *)
(* handlers, a fetchAndPublish with no guard and no finally, a timer of    *)
(* 1000 ms.  isRequestInFlight does not exist there and stays FALSE.       *)

\* the period of its timer and the timeout of its request, in milliseconds
UIntervalMs == 1000
UTimeoutMs == 10000

\* the branch of its catch block an error takes
UCatchLine(hasResponse, hasRequest) ==
    IF hasResponse THEN "ISS API error"
    ELSE IF hasRequest THEN "Network error: Could not reach ISS API"
    ELSE "Error"

\* invocation i was made at this clock reading: the startup one at 0, the
\* one of the n-th timer tick at n
EnteredAt(i) == i - 1

\* fetchAndPublish from its entry to its first suspension
UEnter(src) ==
    calls' = Append(calls, NewCall(src, "awaitGet", "none", 1,
                                   Line("log", "Fetching ISS location...")))

\* an invocation leaves fetchAndPublish; main, when it was awaiting this
\* invocation, goes on to arm the timer
UReturn(i, c, outcome, line) ==
    /\ calls' = [calls EXCEPT ![i] =
                    [c EXCEPT !.pc = "returned", !.outcome = outcome,
                              !.message = Undefined,
                              !.promise = Settled(outcome),
                              !.lines = IF Settled(outcome) = "rejected" THEN c.lines
                                        ELSE Append(c.lines, line)]]
    /\ mainPc' = IF c.src = "startup" THEN "armed" ELSE mainPc

UConnectResolves ==
    /\ proc = "running"
    /\ mainPc = "connecting"
    /\ mainLog' = mainLog \cup {Line("log", "Kafka producer connected")}
    /\ UEnter("startup")
    /\ mainPc' = "startupFetch"
    /\ UNCHANGED <<proc, isRequestInFlight, topic, disconnecting, now>>

\* the timer fires one period after it last fired or was armed; a request
\* older than its timeout has been rejected by then
UTimerTick ==
    /\ proc = "running"
    /\ mainPc = "armed"
    /\ Len(calls) < MaxCalls
    /\ \A i \in DOMAIN calls :
        calls[i].pc = "awaitGet" => (now + 1 - EnteredAt(i)) * UIntervalMs <= UTimeoutMs
    /\ now' = now + 1
    /\ UEnter("timer")
    /\ UNCHANGED <<proc, mainPc, isRequestInFlight, topic, mainLog, disconnecting>>

UGetResolves(i, data) ==
    LET c == [calls[i] EXCEPT !.response = Resolved(data)] IN
    /\ proc = "running"
    /\ calls[i].pc = "awaitGet"
    /\ IF ~IsValidResponse(data)
       THEN UReturn(i, c, "invalid", Line("log", "Invalid ISS API response"))
       ELSE IF NormalizeThrows(data)
       THEN UReturn(i, c, "threw", Line("error", UCatchLine(FALSE, FALSE)))
       ELSE /\ calls' = [calls EXCEPT ![i] =
                            [c EXCEPT !.pc = "awaitSend",
                                      !.sends = c.sends + 1,
                                      !.message =
                                          JSONstringify(normalizeIssLocation(data, now))]]
            /\ UNCHANGED mainPc
    /\ UNCHANGED <<proc, isRequestInFlight, topic, mainLog, disconnecting, now>>

UGetRejects(i, err) ==
    /\ proc = "running"
    /\ calls[i].pc = "awaitGet"
    /\ UReturn(i, [calls[i] EXCEPT !.response = Rejected(err)], err,
               Line("error", UCatchLine(HasResponse(err), HasRequest(err))))
    /\ UNCHANGED <<proc, isRequestInFlight, topic, mainLog, disconnecting, now>>

USendResolves(i) ==
    /\ proc = "running"
    /\ calls[i].pc = "awaitSend"
    /\ topic' = Append(topic, calls[i].message)
    /\ UReturn(i, [calls[i] EXCEPT !.published = calls[i].published + 1,
                                  !.offset = Len(topic) + 1], "published",
               Line("log", "Sent ISS location to Kafka"))
    /\ UNCHANGED <<proc, isRequestInFlight, mainLog, disconnecting, now>>

USendRejects(i) ==
    /\ proc = "running"
    /\ calls[i].pc = "awaitSend"
    /\ UReturn(i, calls[i], "sendFailed", Line("error", UCatchLine(FALSE, FALSE)))
    /\ UNCHANGED <<proc, isRequestInFlight, topic, mainLog, disconnecting, now>>

UNext ==
    \/ UConnectResolves /\ ProducerStep
    \/ ConnectRejects /\ ProducerStep
    \/ UTimerTick /\ ProducerStep
    \/ (\E i \in DOMAIN calls : \E data \in Bodies : UGetResolves(i, data)) /\ ProducerStep
    \/ (\E i \in DOMAIN calls : \E err \in Rejections : UGetRejects(i, err)) /\ ProducerStep
    \/ (\E i \in DOMAIN calls : USendResolves(i)) /\ ProducerStep
    \/ (\E i \in DOMAIN calls : USendRejects(i)) /\ ProducerStep
    \/ Signal /\ ProducerStep
    \/ DisconnectResolves /\ ProducerStep

UnguardedSpec == Init /\ [][UNext]_vars

----------------------------------------------------------------------------
(* The dashboard page (dashboard/app.js) *)

\* the entries the page keeps, and the fraction digits it shows
Capacity == 10
FractionDigits == 4

\* the placeholder the page may show before the first location
EmptyState == [class |-> "empty-state"]

\* the decimal digits of a natural number
RECURSIVE DigitsOf(_)
DigitsOf(n) ==
    IF n < 10 THEN <<Digits[n + 1]>>
    ELSE Append(DigitsOf(n \div 10), Digits[(n % 10) + 1])

\* the digits of n, filled with zeros on the left up to `width` digits
PadLeft(n, width) ==
    [k \in 1..(width - Len(DigitsOf(n))) |-> "0"] \o DigitsOf(n)

\* the text parseFloat is given for a value that is no text (ToString)
ToText(v) ==
    IF v.t = "num"
    THEN (IF v.s < 0 /\ v.m # 0 THEN <<"-">> ELSE <<>>)
         \o DigitsOf(v.m \div Pow10(v.e))
         \o (IF v.e = 0 THEN <<>> ELSE <<".">> \o PadLeft(v.m % Pow10(v.e), v.e))
    ELSE IF v.t = "null" THEN <<"n", "u", "l", "l">>
    ELSE <<"u", "n", "d", "e", "f", "i", "n", "e", "d">>

\* Number.prototype.toFixed: the value rounded to `digits` fraction digits
toFixed(v, digits) ==
    IF v.t # "num" THEN <<"N", "a", "N">>
    ELSE LET scaled == IF v.e <= digits THEN v.m * Pow10(digits - v.e)
                       ELSE (v.m + 5 * Pow10(v.e - digits - 1)) \div Pow10(v.e - digits)
         IN  (IF v.s < 0 THEN <<"-">> ELSE <<>>)
             \o DigitsOf(scaled \div Pow10(digits))
             \o <<".">> \o PadLeft(scaled % Pow10(digits), digits)

formatTimestamp(timestamp) == timestamp

\* the field of a parsed message, undefined when the message has none
Field(location, name) ==
    IF name \in DOMAIN location THEN location[name] ELSE Undefined

createLocationElement(location) ==
    [class |-> "alert-item",
     timestamp |-> formatTimestamp(Field(location, "eventTime")),
     latitude |-> toFixed(parseFloat(ToText(Field(location, "latitude"))), FractionDigits),
     longitude |-> toFixed(parseFloat(ToText(Field(location, "longitude"))), FractionDigits)]

\* the messages the page is given: what the producer stores for a full
\* response and for one without a timestamp
Locations ==
    {JSONstringify(normalizeIssLocation(SuccessBody, 0)),
     JSONstringify(normalizeIssLocation(NoTimestampBody, 1))}

\* container.querySelectorAll('.alert-item'): the places of the entries
AlertItems(children) == {p \in DOMAIN children : children[p].class = "alert-item"}

RemoveAt(children, p) ==
    SubSeq(children, 1, p - 1) \o SubSeq(children, p + 1, Len(children))

\* an eviction that starts one entry late
OverflowsLate(n) == n > Capacity + 1

\* locations.length > 10
Overflows(n) == n > Capacity

\* an eviction that removes the first of the entries
VictimFirst(locations) == CHOOSE p \in locations : \A q \in locations : p <= q

\* locations[locations.length - 1]
Victim(locations) == CHOOSE p \in locations : \A q \in locations : q <= p

\* an insertion after the last child
appendChild(children, el) == Append(children, el)

\* container.insertBefore(el, container.firstChild)
insertBefore(children, el) == <<el>> \o children

ViewerInit ==
    /\ ProducerInit
    /\ NoRelay
    /\ container \in {<<>>, <<EmptyState>>}
    /\ received = <<>>
    /\ evicted = <<>>
    /\ ws = "none"
    /\ placeholderRemoved = FALSE

\* the entry createLocationElement makes of each location of the model,
\* computed once
Rendered == [location \in Locations |-> createLocationElement(location)]

\* the places of the placeholders: what querySelector('.empty-state') looks for
EmptyStates(children) == {p \in DOMAIN children : children[p].class = "empty-state"}

\* a page that leaves the placeholder in
keepEmptyState(children) == children

\* emptyState.remove() when querySelector found one: the first is removed
removeEmptyState(children) ==
    IF EmptyStates(children) = {} THEN children
    ELSE RemoveAt(children, CHOOSE p \in EmptyStates(children) :
                                \A q \in EmptyStates(children) : p <= q)

addLocation(location) ==
    LET cleared == removeEmptyState(container)
        inserted == insertBefore(cleared, Rendered[location])
        locations == AlertItems(inserted)
    IN  /\ Len(received) < MaxEvents
        /\ received' = Append(received, location)
        /\ IF Overflows(Cardinality(locations))
           THEN /\ container' = RemoveAt(inserted, Victim(locations))
                /\ evicted' = Append(evicted, inserted[Victim(locations)])
           ELSE /\ container' = inserted
                /\ UNCHANGED evicted
        /\ placeholderRemoved' = (placeholderRemoved \/ EmptyStates(container) # {})
        /\ UNCHANGED <<producerVars, relayVars>>

\* connectWebSocket(url), called once when the page is set up for option 1
connectWebSocket ==
    /\ ws = "none"
    /\ ws' = "connecting"
    /\ UNCHANGED <<container, received, evicted, placeholderRemoved, producerVars, relayVars>>

\* ws.onopen: the handler logs
WsOpens ==
    /\ ws = "connecting"
    /\ ws' = "open"
    /\ UNCHANGED <<container, received, evicted, placeholderRemoved, producerVars, relayVars>>

\* ws.onmessage: the frame is parsed and given to addLocation
WsMessage(location) ==
    /\ ws = "open"
    /\ addLocation(location)
    /\ UNCHANGED ws

\* the connection fails or is lost: ws.onerror (when it failed) and
\* ws.onclose run, each handler logs and returns
WsCloses ==
    /\ ws \in {"connecting", "open"}
    /\ ws' = "closed"
    /\ UNCHANGED <<container, received, evicted, placeholderRemoved, producerVars, relayVars>>

ViewerNext ==
    \/ (\E location \in Locations : addLocation(location)) /\ UNCHANGED ws
    \/ connectWebSocket
    \/ WsOpens
    \/ \E location \in Locations : WsMessage(location)
    \/ WsCloses

ViewerSpec == ViewerInit /\ [][ViewerNext]_vars

\* a connection attempt the page has asked for is made, and it settles
ViewerFairSpec ==
    ViewerSpec /\ WF_vars(connectWebSocket) /\ WF_vars(WsOpens \/ WsCloses)

----------------------------------------------------------------------------
(* The broadcast relay: onEvent over the open viewer connections *)

\* the order onEvent goes through the connections in
ConnOrder == <<"a", "b", "c">>
Before(j, k) ==
    \E p \in DOMAIN ConnOrder : \E q \in DOMAIN ConnOrder :
        ConnOrder[p] = j /\ ConnOrder[q] = k /\ p < q

\* the events the log yields: the messages the producer stores
Events == Locations

\* the wire shape of an event: the four fields of the schema
Wire(event) ==
    [f \in {"timestamp", "latitude", "longitude", "eventTime"} |-> Field(event, f)]

\* a relay that sends to every connection it has ever known
RecipientsEver(open) == Conns

\* the connections onEvent sends to: those open at the time of the call
Recipients(open) == open

\* a send that is made twice
FramesTwice(event) == <<Wire(event), Wire(event)>>

\* the frames onEvent sends to one connection for one event: one attempt
Frames(event) == <<Wire(event)>>

\* a failed send that is thrown on to the caller of onEvent
NotIsolated(k) == FALSE

\* a failed send is logged and the loop goes on
Isolated(k) == TRUE

\* the transport layer opens or closes a connection
Admit(k) ==
    /\ k \notin connections
    /\ connections' = connections \cup {k}
    /\ UNCHANGED <<inbox, last, raised, relayLog, seen, got, producerVars, viewerVars>>

Remove(k) ==
    /\ k \in connections
    /\ connections' = connections \ {k}
    /\ UNCHANGED <<inbox, last, raised, relayLog, seen, got, producerVars, viewerVars>>

\* onEvent(event) when the sends to the connections in `failing` fail
onEvent(event, failing) ==
    LET escaping == {k \in failing : ~Isolated(k)}
        reached == {k \in Recipients(connections) : \A j \in escaping : ~Before(j, k)}
        logged == SelectSeq(ConnOrder,
                            LAMBDA k : k \in reached /\ k \in failing /\ Isolated(k))
    IN  /\ last.n < MaxRelayed
        /\ inbox' = [k \in Conns |->
                        IF k \in reached \ failing
                        THEN inbox[k] \o Frames(event) ELSE inbox[k]]
        /\ got' = [k \in Conns |->
                        IF k \in reached \ failing
                        THEN Append(got[k], Len(seen) + 1) ELSE got[k]]
        /\ seen' = Append(seen, [event |-> event, open |-> connections,
                                 failing |-> failing])
        /\ relayLog' = relayLog \o logged
        /\ raised' = (raised \/ escaping # {})
        /\ last' = [n |-> last.n + 1, event |-> event, open |-> connections,
                    failing |-> failing, before |-> [k \in Conns |-> Len(inbox[k])]]
        /\ UNCHANGED <<connections, producerVars, viewerVars>>

RelayNext ==
    \/ \E k \in Conns : Admit(k)
    \/ \E k \in Conns : Remove(k)
    \/ \E event \in Events : \E failing \in SUBSET connections : onEvent(event, failing)

RelaySpec == Init /\ [][RelayNext]_vars

----------------------------------------------------------------------------
(* Vocabulary of the properties *)

Returned(c) == c.pc = "returned"
Ran(c) == c.outcome # "skipped"

\* invocation i leaves fetchAndPublish in this step
Completes(i) == Active(calls[i]) /\ Returned(calls'[i])

\* a timer tick (or the startup call) enters fetchAndPublish in this step
Enters == Len(calls') = Len(calls) + 1

\* the latest invocation that passed the guard, 0 when there is none
RECURSIVE LastRan(_)
LastRan(n) == IF n = 0 \/ Ran(calls[n]) THEN n ELSE LastRan(n - 1)

\* the invocation before this step's new one ended with `outcome`, and nothing
\* has passed the guard since
EntersAfter(outcome) ==
    /\ Enters
    /\ LastRan(Len(calls)) > 0
    /\ Returned(calls[LastRan(Len(calls))])
    /\ calls[LastRan(Len(calls))].outcome = outcome

\* this step's new invocation passes the guard and issues its request
NewCallRuns ==
    LET c == calls'[Len(calls')] IN c.pc = "awaitGet" /\ c.requests = 1

RECURSIVE SumOf(_, _)
SumOf(f, n) == IF n = 0 THEN 0 ELSE f[n] + SumOf(f, n - 1)

TotalRequests == SumOf([i \in DOMAIN calls |-> calls[i].requests], Len(calls))
TotalPublished == SumOf([i \in DOMAIN calls |-> calls[i].published], Len(calls))

\* a body of the expected shape: success marker, a timestamp, and a position
\* whose two texts are finite numbers
IsFinite(v) == v.t = "num"
Parses(text) == IsFinite(parseFloat(text))
WellFormed(data) ==
    /\ data.present
    /\ data.message = Str("success")
    /\ data.timestamp.t = "num"
    /\ data.iss_position # Undefined
    /\ Parses(data.iss_position.latitude.v)
    /\ Parses(data.iss_position.longitude.v)

\* a success-marked body with a position of which a text is no finite number
Unparsable(data) ==
    /\ data.present
    /\ data.message = Str("success")
    /\ data.iss_position # Undefined
    /\ ~(Parses(data.iss_position.latitude.v) /\ Parses(data.iss_position.longitude.v))

BadStatus(data) == ~data.present \/ data.message # Str("success")

----------------------------------------------------------------------------
(* Properties *)

\* C1: under every interleaving of ticks and completions, at most one
\* invocation is between setting the busy flag and clearing it, so there are
\* never two upstream requests or two publishes in flight.
C1_SingleFlight ==
    /\ Cardinality(ActiveCalls) <= 1
    /\ Cardinality({i \in DOMAIN calls : calls[i].pc = "awaitGet"}) <= 1
    /\ Cardinality({i \in DOMAIN calls : calls[i].pc = "awaitSend"}) <= 1

\* a tick fired while a cycle was in flight, and the cycle is still in flight
C1_Witness ==
    \E i, j \in DOMAIN calls : i < j /\ Active(calls[i]) /\ calls[j].overlapped

\* C2: an invocation made while an earlier one is still in flight returns at
\* once, with no upstream request and no publish.
C2_OverlapSkips ==
    \A i \in DOMAIN calls :
        calls[i].overlapped =>
            /\ Returned(calls[i])
            /\ calls[i].requests = 0
            /\ calls[i].sends = 0
            /\ calls[i].published = 0

\* an overlapped invocation exists and the cycle it overlapped went on to publish
C2_Witness ==
    \E i, j \in DOMAIN calls :
        i < j /\ calls[j].overlapped /\ calls[i].outcome = "published"

\* C3: the flag is false before the first invocation and right after every
\* invocation that passed the guard completes, whichever way it completes.
C3_FlagClearAfterEveryTick ==
    /\ [](calls = <<>> => ~isRequestInFlight)
    /\ [][\A i \in DOMAIN calls : Completes(i) => ~isRequestInFlight']_vars

\* three invocations have completed in three different failing ways
C3_Witness ==
    /\ ~isRequestInFlight
    /\ \E i, j, k \in DOMAIN calls :
        /\ calls[i].outcome \in {"invalid", "timeout", "network", "http"}
        /\ calls[j].outcome = "threw"
        /\ calls[k].outcome = "sendFailed"

\* C4: the guard never sticks: provided requests and publishes settle, a set
\* flag is cleared again with the timer armed, unless the process has been
\* told to exit in the meantime.
C4_GuardNeverStuck ==
    (isRequestInFlight /\ proc = "running")
        ~> ((~isRequestInFlight /\ mainPc = "armed") \/ proc # "running")

\* a cycle failed and a later tick has started a new cycle
C4_Witness ==
    \E i, j \in DOMAIN calls :
        /\ i < j
        /\ calls[i].outcome \in {"threw", "sendFailed", "timeout"}
        /\ Active(calls[j])

\* C5: an invocation that passed the guard publishes exactly one event when
\* the response is well formed and the publish succeeds, none when the request
\* times out, fails in transport, gets an HTTP error or a body that is not
\* marked success, and never more than one.
C5_OnePublishPerSuccess ==
    /\ TotalPublished = Len(topic)
    /\ \A i \in DOMAIN calls :
        LET c == calls[i] IN
        /\ c.published <= 1
        /\ (Returned(c) /\ c.response.t = "resolved" /\ WellFormed(c.response.data)) =>
                /\ c.sends = 1
                /\ c.outcome \in {"published", "sendFailed"}
                /\ c.outcome = "published" => c.published = 1
        /\ c.response.t = "rejected" => c.sends = 0 /\ c.published = 0
        /\ (c.response.t = "resolved" /\ BadStatus(c.response.data)) =>
                c.sends = 0 /\ c.published = 0

\* one cycle published a well-formed response, another got a complete body
\* marked failure, a third timed out
C5_Witness ==
    \E i, j, k \in DOMAIN calls :
        /\ calls[i].outcome = "published" /\ WellFormed(calls[i].response.data)
        /\ calls[j].response = Resolved(FailureFullBody)
        /\ calls[k].response = Rejected("timeout")

\* C6: a success-marked response whose latitude or longitude text is no
\* finite number counts as a failed fetch: nothing is sent for it, and no
\* stored event carries a coordinate that is not a finite number.
C6_UnparsableIsFailure ==
    /\ \A i \in DOMAIN calls :
        (calls[i].response.t = "resolved" /\ Unparsable(calls[i].response.data)) =>
            calls[i].sends = 0 /\ calls[i].published = 0
    /\ \A n \in DOMAIN topic :
        topic[n].latitude.t = "num" /\ topic[n].longitude.t = "num"

\* C7: a request that times out publishes nothing and does not end the
\* process, and the next tick runs a full cycle.
C7_TimeoutThenNextTickRuns ==
    /\ [](\A i \in DOMAIN calls :
            calls[i].response = Rejected("timeout") =>
                calls[i].sends = 0 /\ calls[i].published = 0)
    /\ [][/\ \A i \in DOMAIN calls :
                (Completes(i) /\ calls'[i].response = Rejected("timeout")) =>
                    proc' = "running" /\ mainPc' = "armed" /\ topic' = topic
          /\ EntersAfter("timeout") => NewCallRuns]_vars

\* a cycle timed out and the tick after it went on to send
C7_Witness ==
    \E i, j \in DOMAIN calls :
        i < j /\ calls[i].response = Rejected("timeout") /\ calls[j].sends = 1

\* C8: a skipped tick is dropped, not deferred: it never issues a request, no
\* invocation issues more than one, and so the requests issued never exceed
\* the ticks that found the flag false.
C8_SkippedNeverDeferred ==
    /\ \A i \in DOMAIN calls :
        /\ calls[i].requests <= 1
        /\ calls[i].busyAtEntry => Returned(calls[i]) /\ calls[i].requests = 0
    /\ TotalRequests <= Cardinality({i \in DOMAIN calls : ~calls[i].busyAtEntry})

\* a tick was skipped, the cycle it overlapped has completed, and nothing runs
C8_Witness ==
    /\ \E i \in DOMAIN calls : calls[i].busyAtEntry
    /\ ActiveCalls = {}
    /\ TotalRequests = Len(calls) - 1

\* C9 as stated: a failed producer.send ends the process.
C9_SendFailureFatal ==
    [][\A i \in DOMAIN calls :
        (Completes(i) /\ calls'[i].outcome = "sendFailed") => proc' # "running"]_vars

\* C9 as amended: a failed producer.send is logged with one console.error line
\* and leaves the process running.
C9_SendFailureLoggedNotFatal ==
    [][\A i \in DOMAIN calls :
        (Completes(i) /\ calls'[i].outcome = "sendFailed") =>
            /\ proc' = "running"
            /\ calls'[i].lines =
                   Append(calls[i].lines, Line("error", CatchLine(FALSE, FALSE)))]_vars

\* a send has failed and the process is running
C9_Witness ==
    proc = "running" /\ \E i \in DOMAIN calls : calls[i].outcome = "sendFailed"

\* C10: after a failed producer.send the process keeps running with the flag
\* cleared and the timer armed, and the next tick starts a new cycle.
C10_SendFailureContinues ==
    [][/\ \A i \in DOMAIN calls :
            (Completes(i) /\ calls'[i].outcome = "sendFailed") =>
                proc' = "running" /\ ~isRequestInFlight' /\ mainPc' = "armed"
       /\ EntersAfter("sendFailed") => NewCallRuns]_vars

\* a send failed and the tick after it went on to send again
C10_Witness ==
    \E i, j \in DOMAIN calls :
        i < j /\ calls[i].outcome = "sendFailed" /\ calls[j].sends = 1

\* C11: in the producer without the busy flag only one API request runs at a
\* time: no tick starts a request while an earlier request or publish of that
\* producer is in flight.
C11_UnguardedOneRequestAtATime ==
    /\ \A i \in DOMAIN calls : calls[i].overlapped => calls[i].requests = 0
    /\ Cardinality({i \in DOMAIN calls : calls[i].pc = "awaitGet"}) <= 1

\* C12: every stored message carries the four wire fields timestamp,
\* latitude, longitude and eventTime, also when the response that passed the
\* success check had no timestamp.
C12_AllFourFields ==
    \A n \in DOMAIN topic :
        DOMAIN topic[n] = {"timestamp", "latitude", "longitude", "eventTime"}

\* the decimal places the values of the properties are compared at
Places == 4

\* the value of a plain decimal text ([-]digits[.digits]) times 10^Places,
\* summed digit by digit from the position of each digit
DotAt(text) ==
    IF \E p \in DOMAIN text : text[p] = "."
    THEN CHOOSE p \in DOMAIN text : text[p] = "."
    ELSE Len(text) + 1
DigitWeight(text, p) ==
    IF p < DotAt(text) THEN Pow10(Places + DotAt(text) - p - 1)
    ELSE Pow10(Places - (p - DotAt(text)))
ScaledText(text) ==
    LET ds == {p \in DOMAIN text : IsDigit(text[p])}
        term == [p \in 1..Len(text) |->
                    IF p \in ds THEN DigitVal(text[p]) * DigitWeight(text, p) ELSE 0]
    IN  (IF text[1] = "-" THEN 0 - 1 ELSE 1) * SumOf(term, Len(text))

\* the number v is the value of the decimal text
IsValueOf(v, text) ==
    v.t = "num" /\ v.s * v.m * Pow10(Places - v.e) = ScaledText(text)

\* plain decimal texts an upstream response may carry
DecimalTexts ==
    {ParisLat, ParisLon, SouthLat, <<"0">>, <<"-", "0", ".", "0", "0", "7">>,
     <<"1", "8", "0">>, <<"9", "0", ".", "0">>}

\* the event invocation i handed to producer.send
EventOf(i) ==
    IF calls[i].pc = "awaitSend" THEN calls[i].message ELSE topic[calls[i].offset]

\* C13: for a well-formed response the event keeps the upstream timestamp,
\* its latitude and longitude are the values of the upstream texts, and its
\* eventTime is the ISO form of the local clock read between the entry of the
\* invocation and now, equal to none of the upstream timestamp and coordinates.
\* The conversion of the sample texts depends on no state and is evaluated
\* before the first invocation.
C13_EventFromResponse ==
    /\ \A i \in DOMAIN calls :
        LET c == calls[i] IN
        (c.response.t = "resolved" /\ WellFormed(c.response.data)
            /\ (c.pc = "awaitSend" \/ c.offset > 0)) =>
            LET d == c.response.data
                ev == EventOf(i)
            IN  /\ ev.timestamp = d.timestamp
                /\ IsValueOf(ev.latitude, d.iss_position.latitude.v)
                /\ IsValueOf(ev.longitude, d.iss_position.longitude.v)
                /\ \E clock \in EnteredAt(i)..now : ev.eventTime = Str(toISOString(clock))
                /\ ev.eventTime \notin {d.timestamp, d.iss_position.latitude,
                                         d.iss_position.longitude}
    /\ calls = <<>> => \A text \in DecimalTexts :
        LET ev == normalizeIssLocation(
                      Body(Str("success"), IntNum(1705332000), Position(text, text)), now)
        IN  IsValueOf(ev.latitude, text) /\ IsValueOf(ev.longitude, text)

\* the event of a well-formed response is stored, after a skipped tick had
\* moved the clock past the entry of its invocation
C13_Witness ==
    \E i \in DOMAIN calls :
        /\ calls[i].offset > 0
        /\ WellFormed(calls[i].response.data)
        /\ topic[calls[i].offset].eventTime # Str(toISOString(EnteredAt(i)))

\* the entries of the page, first entry first
Window == SelectSeq(container, LAMBDA el : el.class = "alert-item")

\* C14: whatever calls of addLocation were made on a container that had no
\* entries, the page never shows more entries than its capacity.
C14_WindowBound == Len(Window) <= Capacity

\* the page is full and has evicted entries
C14_Witness == Len(Window) = Capacity /\ Len(received) > Capacity

\* C15: after m calls the page shows the min(m, Capacity) latest locations,
\* latest first, and the entries it evicted are those of the first
\* m - Capacity locations, in the order they were given.
C15_MostRecentFirst ==
    LET m == Len(received) IN
    /\ Len(Window) = IF m > Capacity THEN Capacity ELSE m
    /\ \A j \in 1..Len(Window) : Window[j] = Rendered[received[m - j + 1]]
    /\ Len(evicted) = m - Len(Window)
    /\ \A k \in 1..Len(evicted) : evicted[k] = Rendered[received[k]]

\* two different entries were evicted, and the newest shown entry is the
\* full location given last
C15_Witness ==
    /\ Len(received) = Capacity + 2
    /\ Len(evicted) = 2
    /\ evicted[1] # evicted[2]
    /\ received[Len(received)] # received[1]
    /\ Window[1].latitude = <<"4", "8", ".", "8", "5", "6", "6">>
    /\ Window[1].longitude = <<"2", ".", "3", "5", "2", "2">>
    /\ evicted[1].latitude = <<"-", "1", "2", ".", "5", "0", "0", "0">>

\* C16: a termination signal does not abort a request in flight: the process
\* has not exited on a signal while an invocation is suspended at axios.get.
C16_NoExitDuringRequest ==
    proc = "exit0" => \A i \in DOMAIN calls : calls[i].pc # "awaitGet"

\* C17: shutdown leaves no publish half done: the process has not exited on a
\* signal while an invocation is suspended at producer.send.
C17_NoExitDuringPublish ==
    proc = "exit0" => \A i \in DOMAIN calls : calls[i].pc # "awaitSend"

\* the timer periods that have elapsed since the timer was armed
Periods == now

\* C18: the first invocation is made by main after the connect and no other
\* is made until it has returned; the timer is armed only after it returned;
\* every later invocation is made by the timer, one per elapsed period.
C18_StartupThenOnePerPeriod ==
    /\ mainPc = "connecting" => calls = <<>>
    /\ mainPc = "startupFetch" => Len(calls) = 1 /\ Active(calls[1])
    /\ mainPc = "armed" => calls # <<>> /\ Returned(calls[1])
    /\ \A i \in DOMAIN calls : calls[i].src = IF i = 1 THEN "startup" ELSE "timer"
    /\ \A i \in DOMAIN calls : \A j \in DOMAIN calls :
        (i = 1 /\ j > 1 /\ Active(calls[j])) => Returned(calls[1])
    /\ calls # <<>> => Len(calls) = 1 + Periods

\* the startup invocation ran to its end and two periods later the second
\* timer invocation is running
C18_Witness ==
    /\ Len(calls) = 3
    /\ calls[1].outcome = "published"
    /\ Active(calls[3])
    /\ Periods = 2

\* C19: no invocation of fetchAndPublish rejects, whatever the request, the
\* normalization or the publish did: every exception ends as an error line of
\* the invocation, its promise is fulfilled, and only a failed connect ends
\* the process with status 1.
C19_NoErrorLeavesTick ==
    /\ \A i \in DOMAIN calls :
        LET c == calls[i] IN
        /\ c.promise # "rejected"
        /\ Returned(c) => c.promise = "fulfilled"
        /\ (Returned(c) /\ Thrown(c.outcome)) => c.lines[Len(c.lines)].stream = "error"
    /\ proc = "exit1" => mainPc = "failed" /\ calls = <<>>

\* a rejected request, a throwing normalization and a rejected publish have
\* each ended an invocation
C19_Witness ==
    /\ \E i \in DOMAIN calls : Returned(calls[i]) /\ calls[i].outcome \in Rejections
    /\ \E i \in DOMAIN calls : Returned(calls[i]) /\ calls[i].outcome = "threw"
    /\ \E i \in DOMAIN calls : Returned(calls[i]) /\ calls[i].outcome = "sendFailed"

\* C20: when onEvent broadcasts an event and the send to some of the open
\* connections fails, every other connection that was open receives that
\* event, once; the failing ones and the closed ones receive nothing, the
\* failures are logged, and no error leaves onEvent.
C20_BroadcastIsolation ==
    /\ ~raised
    /\ \A k \in Conns :
        IF k \in last.open \ last.failing
        THEN /\ Len(inbox[k]) = last.before[k] + 1
             /\ inbox[k][Len(inbox[k])] = Wire(last.event)
        ELSE Len(inbox[k]) = last.before[k]
    /\ last.n > 0 =>
        \A k \in last.failing : \E p \in DOMAIN relayLog : relayLog[p] = k

\* the send to the first of three open connections failed, and the two
\* others, one of which had missed the event before, received the event
C20_Witness ==
    /\ last.n = 2
    /\ last.open = Conns
    /\ last.failing = {"a"}
    /\ Len(inbox["b"]) = 2
    /\ Len(inbox["c"]) = 1
    /\ inbox["c"][1] = Wire(last.event)

\* C21: every connection receives the events in the order onEvent was given
\* them, each at most once: its frames are the wire forms of calls of
\* strictly increasing number, and a call whose send to it failed or that it
\* missed is never among them.
C21_InOrderAtMostOnce ==
    \A k \in Conns :
        /\ Len(inbox[k]) = Len(got[k])
        /\ \A p \in DOMAIN got[k] :
            /\ got[k][p] \in DOMAIN seen
            /\ inbox[k][p] = Wire(seen[got[k][p]].event)
            /\ k \notin seen[got[k][p]].failing
        /\ \A p \in DOMAIN got[k] : \A q \in DOMAIN got[k] :
            p < q => got[k][p] < got[k][q]

\* a connection missed the first of two different events because its send
\* failed, and received the second; another received both in order
C21_Witness ==
    /\ Len(seen) = 2
    /\ seen[1].event # seen[2].event
    /\ "a" \in seen[1].failing
    /\ got["a"] = <<2>>
    /\ got["b"] = <<1, 2>>
    /\ inbox["b"] = <<Wire(seen[1].event), Wire(seen[2].event)>>

\* C22: a connection receives only events that were broadcast while it was
\* open: an event broadcast before it opened is never in its inbox.
C22_NoBackfill ==
    \A k \in Conns : \A p \in DOMAIN got[k] :
        got[k][p] \in DOMAIN seen /\ k \in seen[got[k][p]].open

\* a connection opened after the first event was broadcast and holds the
\* second event only
C22_Witness ==
    /\ Len(seen) = 2
    /\ seen[1].open = {"a"}
    /\ "b" \in seen[2].open
    /\ got["b"] = <<2>>
    /\ got["a"] = <<1, 2>>

\* C23: when the page's connection is lost the page attempts to connect
\* again: a closed WebSocket leads to a new connection attempt.
C23_ReconnectAfterLoss == (ws = "closed") ~> (ws = "connecting")

\* the JSON text of one JSON value: a number by its decimal digits, null by
\* its name, a string between quotes
JsonText(v) ==
    IF v.t = "str" THEN <<"\"">> \o v.v \o <<"\"">> ELSE ToText(v)

\* JSON.parse of the text of one value
JsonParse(text) ==
    IF text = <<"n", "u", "l", "l">> THEN Null
    ELSE IF Head(text) = "\"" THEN Str(SubSeq(text, 2, Len(text) - 1))
    ELSE parseFloat(text)

\* the published text of an event, key by key, and what a consumer parses
\* from it
WireText(event) ==
    [k \in DOMAIN JSONstringify(event) |-> JsonText(JSONstringify(event)[k])]
Decoded(event) == [k \in DOMAIN WireText(event) |-> JsonParse(WireText(event)[k])]

\* C24: for every event the producer hands to JSON.stringify, parsing the
\* published text gives back the four field values of the event, also when a
\* coordinate did not parse.
C24_RoundTrip ==
    \A i \in DOMAIN calls : \A clock \in 0..now :
        LET c == calls[i]
            ev == normalizeIssLocation(c.response.data, clock)
        IN  (c.pc = "awaitSend" /\ JSONstringify(ev) = c.message) =>
                \A f \in {"timestamp", "latitude", "longitude", "eventTime"} :
                    Field(Decoded(ev), f) = ev[f]

\* the upstream answered with a body whose message is "failure"
AnsweredFailure(c) ==
    /\ c.response.t = "resolved"
    /\ c.response.data.present
    /\ c.response.data.message = Str("failure")

\* C25 as stated: an invocation answered with {"message":"failure"} publishes
\* nothing and writes exactly one line.
C25_FailureOneLine ==
    \A i \in DOMAIN calls :
        (Returned(calls[i]) /\ AnsweredFailure(calls[i])) =>
            calls[i].published = 0 /\ Len(calls[i].lines) = 1

\* C25 amended: an invocation answered with {"message":"failure"} sends and
\* publishes nothing and writes two lines to the log stream, the line that
\* announces the fetch and the line that reports the invalid response.
C25_FailureTwoLines ==
    \A i \in DOMAIN calls :
        (Returned(calls[i]) /\ AnsweredFailure(calls[i])) =>
            /\ calls[i].sends = 0
            /\ calls[i].published = 0
            /\ calls[i].offset = 0
            /\ calls[i].outcome = "invalid"
            /\ calls[i].lines = <<Line("log", "Fetching ISS location..."),
                                  Line("log", "Invalid ISS API response")>>

\* the bare failure body and the failure body that carries a position have
\* each ended an invocation, and the topic is empty
C25_Witness ==
    /\ \E i \in DOMAIN calls : Returned(calls[i]) /\ calls[i].response = Resolved(FailureBody)
    /\ \E i \in DOMAIN calls : Returned(calls[i]) /\ calls[i].response = Resolved(FailureFullBody)
    /\ topic = <<>>

\* the rows the documentation says the page keeps
DocumentedRows == 100

\* C26: the page keeps the latest 100 entries: while no more than 100
\* locations were added all of them are shown, and beyond that the 100 most
\* recent.
C26_KeepsLatestHundred ==
    LET m == Len(received)
        kept == IF m > DocumentedRows THEN DocumentedRows ELSE m
    IN  /\ Len(Window) = kept
        /\ \A j \in 1..Len(Window) : j <= kept => Window[j] = Rendered[received[m - j + 1]]

\* the period the documentation gives, in milliseconds
DocumentedIntervalMs == 60000

\* C27: after the startup invocation the timer makes an invocation every
\* 60000 ms: the n-th timer invocation is made n * 60000 ms after the timer
\* was armed.
C27_EverySixtySeconds ==
    \A i \in DOMAIN calls :
        calls[i].src = "timer" =>
            EnteredAt(i) * IntervalMs = (i - 1) * DocumentedIntervalMs

\* C28: an invocation that was not skipped issues exactly one request and at
\* most one publish, none after a failed request and none again after a
\* failed publish; all the requests made are one per invocation that ran.
C28_NoRetryWithinTick ==
    /\ \A i \in DOMAIN calls :
        LET c == calls[i] IN
        /\ c.requests = IF Ran(c) THEN 1 ELSE 0
        /\ c.sends <= 1
        /\ c.response.t = "rejected" => c.sends = 0 /\ Returned(c)
        /\ c.outcome = "sendFailed" => c.sends = 1 /\ c.published = 0 /\ Returned(c)
    /\ TotalRequests = Cardinality({i \in DOMAIN calls : Ran(calls[i])})

\* a request failed, a publish failed, and a later timer invocation is
\* making the next request
C28_Witness ==
    /\ Len(calls) = 3
    /\ calls[1].response.t = "rejected"
    /\ calls[2].outcome = "sendFailed"
    /\ calls[3].src = "timer" /\ calls[3].pc = "awaitGet"
    /\ TotalRequests = 3

\* the clock reading an eventTime text stands for: its two minute digits
ClockOf(eventTime) == DigitsValue(<<eventTime.v[2], eventTime.v[3]>>, 0)

\* C29: with the busy flag, messages are stored in the order their
\* invocations started, and the eventTime of successive messages never
\* decreases (the clock of the model never runs backwards).
C29_PublishedInStartOrder ==
    /\ \A i \in DOMAIN calls : \A j \in DOMAIN calls :
        (i < j /\ calls[i].offset > 0 /\ calls[j].offset > 0) =>
            calls[i].offset < calls[j].offset
    /\ \A i \in DOMAIN calls : \A j \in DOMAIN calls :
        (i < j /\ calls[j].offset > 0 /\ Ran(calls[i])) => Returned(calls[i])
    /\ \A n \in DOMAIN topic : \A k \in DOMAIN topic :
        n < k => ClockOf(topic[n].eventTime) <= ClockOf(topic[k].eventTime)

\* two invocations have each stored a message, the second with a later
\* eventTime
C29_Witness ==
    /\ Len(topic) = 2
    /\ ClockOf(topic[1].eventTime) < ClockOf(topic[2].eventTime)
    /\ \E i \in DOMAIN calls : \E j \in DOMAIN calls :
        i < j /\ calls[i].offset = 1 /\ calls[j].offset = 2

\* C30: a call addLocation(e) makes the entry of e the first entry, and the
\* entries that were shown before follow it in their order, all of them or
\* all but the last one.
C30_FrontInsertBackEvict ==
    [][received' # received =>
        LET e == received'[Len(received')]
            older == SubSeq(Window', 2, Len(Window'))
        IN  /\ Window' # <<>>
            /\ Window'[1] = Rendered[e]
            /\ \/ older = Window /\ evicted' = evicted
               \/ /\ Window # <<>>
                  /\ older = SubSeq(Window, 1, Len(Window) - 1)
                  /\ evicted' = Append(evicted, Window[Len(Window)])]_vars

\* the page is full, the latest call evicted an entry, and the two newest
\* entries differ from each other
C30_Witness ==
    /\ Len(received) = Capacity + 1
    /\ Len(evicted) = 1
    /\ Len(Window) = Capacity
    /\ Window[1] = Rendered[received[Len(received)]]
    /\ Window[2] = Rendered[received[Len(received) - 1]]
    /\ Window[1] # Window[2]
    /\ evicted[1] = Rendered[received[1]]

\* the invocation made in this step is skipped
EntersSkipped == Enters /\ calls'[Len(calls')].outcome = "skipped"

\* C31: a skipped invocation leaves the busy flag as it found it, set, and
\* changes no other invocation; so while an invocation is in flight the flag
\* is set, whatever was skipped in between.
C31_SkipLeavesFlag ==
    /\ [][EntersSkipped =>
            /\ isRequestInFlight /\ isRequestInFlight'
            /\ \A i \in DOMAIN calls : calls'[i] = calls[i]
            /\ \E i \in DOMAIN calls : Active(calls'[i])]_vars
    /\ []((\E i \in DOMAIN calls : Active(calls[i])) => isRequestInFlight)

\* a timer invocation was skipped while the one before it is still in
\* flight, and the flag is set
C31_Witness ==
    /\ Len(calls) = 3
    /\ Active(calls[2])
    /\ calls[3].outcome = "skipped"
    /\ isRequestInFlight

\* C32: once a signal handler has started and called producer.disconnect(),
\* no invocation starts a fetch cycle and no invocation calls producer.send.
C32_QuietAfterSignal ==
    [][disconnecting =>
        /\ Enters => ~NewCallRuns
        /\ \A i \in DOMAIN calls : calls'[i].sends = calls[i].sends]_vars

\* main has caught a rejected producer.connect()
ConnectFailed == Line("error", "Failed to start producer") \in mainLog

\* C33: when producer.connect() fails the process has exited with status 1,
\* no invocation of fetchAndPublish was ever made, so no request was issued
\* and nothing was published, and the timer was never armed.
C33_ConnectFailureExits ==
    ConnectFailed =>
        /\ proc = "exit1"
        /\ mainPc = "failed"
        /\ calls = <<>>
        /\ TotalRequests = 0
        /\ topic = <<>>

\* the connect failed while a signal handler was waiting for the disconnect
C33_Witness == ConnectFailed /\ proc = "exit1" /\ disconnecting

\* C34: however the startup invocation ended, main has armed the timer, and
\* while the process runs a timer tick can make the next invocation.
C34_TimerArmedAfterStartup ==
    (calls # <<>> /\ Returned(calls[1])) =>
        /\ calls[1].src = "startup"
        /\ calls[1].outcome \in Rejections \cup {"invalid", "threw", "sendFailed", "published"}
        /\ mainPc = "armed"
        /\ (proc = "running" /\ Len(calls) < MaxCalls) => ENABLED (TimerTick /\ ProducerStep)

\* the startup invocation failed at the publish and the first timer
\* invocation that follows is making its request
C34_Witness ==
    /\ Len(calls) = 2
    /\ calls[1].outcome = "sendFailed"
    /\ calls[2].src = "timer"
    /\ calls[2].pc = "awaitGet"

\* the response passed the success check and has no iss_position
NoPosition(c) ==
    /\ c.response.t = "resolved"
    /\ c.response.data.present
    /\ c.response.data.message = Str("success")
    /\ c.response.data.iss_position = Undefined

\* C35: when the response passes the success check and has no iss_position,
\* normalization throws: the invocation sends and publishes nothing, writes
\* the error line of the catch block and returns normally; the step that ends
\* it clears the busy flag, leaves the topic alone and the process running.
C35_MissingPositionCaught ==
    /\ [](\A i \in DOMAIN calls :
            NoPosition(calls[i]) =>
                /\ Returned(calls[i])
                /\ calls[i].outcome = "threw"
                /\ calls[i].sends = 0 /\ calls[i].published = 0 /\ calls[i].offset = 0
                /\ calls[i].promise = "fulfilled"
                /\ calls[i].lines = <<Line("log", "Fetching ISS location..."),
                                      Line("error", "Error (will retry on next interval)")>>)
    /\ [][\A i \in DOMAIN calls :
            (Completes(i) /\ NoPosition(calls'[i])) =>
                /\ isRequestInFlight /\ ~isRequestInFlight'
                /\ topic' = topic
                /\ proc' = "running"]_vars

\* an invocation whose response had no iss_position has ended, and the next
\* timer invocation has passed the guard
C35_Witness ==
    \E i \in DOMAIN calls :
        /\ NoPosition(calls[i])
        /\ i < Len(calls)
        /\ calls[i + 1].requests = 1
        /\ proc = "running"

\* C36: once addLocation has been called the container holds no placeholder,
\* and a placeholder never stands beside a location entry; a call of
\* addLocation leaves none behind.
C36_NoPlaceholderAfterAdd ==
    /\ [](/\ received # <<>> => EmptyStates(container) = {}
          /\ ~(EmptyStates(container) # {} /\ AlertItems(container) # {})
          /\ placeholderRemoved => received # <<>>)
    /\ [][received' # received => EmptyStates(container') = {}]_vars

\* the first addLocation removed the placeholder, and more entries were
\* added after it
C36_Witness ==
    /\ placeholderRemoved
    /\ Len(received) = 3
    /\ Len(container) = 3
    /\ \A p \in DOMAIN container : container[p].class = "alert-item"

====
